---- MODULE Spec2Model ----
(***************************************************************************)
(* A model of nw3.py: the Entrez adapter (_get, search_term_to_pmids,      *)
(* get_article_summary_by_pmid, get_citations_of) and the graph builder    *)
(* api_graph.  Python strings are sequences of one-character strings, so   *)
(* that strip, split, isdigit, int and the "a->b" edge keys are computed   *)
(* as Python computes them.  Every upstream call draws its outcome from a  *)
(* small set: the transport may fail or time out, the status may be an     *)
(* error, the body may be unparsable or lack the expected keys.            *)
(***************************************************************************)
EXTENDS Integers, Sequences, FiniteSets, TLC

(* ---------------------------------------------------------------- bounds *)
\* most comma-separated pieces in the seeds parameter
MaxSeeds == 2
\* most pieces when esummary and efetch always answer with a record
MaxManySeeds == 3
\* most pieces of a request that is run twice against a stub
MaxTwinSeeds == 2
\* get_citations_of on its own: most link groups, and links per group
MaxGroups == 2
MaxGroupLinks == 2
\* get_citations_of on its own: limits range over -1 .. MaxLimit
MaxLimit == 2

(* ------------------------------------------------------ program constants *)
DEFAULT_LIMIT == 20
TITLE_MAX == 800
TITLE_KEEP == 200
NODE_VAL == 12
PALETTE_SIZE == 8
HTTP_ERROR_FROM == 400
HTTP_OK == 200
HTTP_BAD_REQUEST == 400
HTTP_SERVER_ERROR == 500
HTTP_NOT_FOUND == 404

PALETTE == << "#00bcd4", "#ff9800", "#8bc34a", "#e91e63",
              "#9c27b0", "#ff5722", "#03a9f4", "#cddc39" >>
SHARED_COLOR == "#ffffff"
LINK_COLOR == "#cccccc"
SEMANTIC_COLOR == "#66bb6a"

DELAY_MS == 350

VARIABLES
    API_KEY,          \* the configured API key: None, or Some(string)
    seeds_raw,        \* request.args['seeds']
    limit_arg,        \* request.args.get('limit'): None, or Some(string)
    connector_arg,    \* request.args.get('connector_limit')
    pc,               \* where api_graph is
    seeds, limit, connector_limit,
    s_index, pmids, local_pmids, local_list, idx,
    all_nodes,        \* the dict, as its values in insertion order
    all_links,        \* the set of edge keys
    response,         \* None, or the response returned
    called,           \* the entrez endpoints requested so far in this build
    last,             \* the last adapter call of this build: what, with what, result
    discovered,       \* for each identifier, the seed indexes whose working set held it
    upstream,         \* what the upstream may answer: anything, or as a stub fixes
    twin,             \* None, or the request being run twice and its first response
    probe             \* one adapter function on its own: its input and its result

graphVars == << seeds_raw, limit_arg, connector_arg, pc, seeds, limit,
                connector_limit, s_index, pmids,
                local_pmids, local_list, idx, all_nodes, all_links, response,
                called, last, discovered >>
vars == << API_KEY, graphVars, upstream, twin, probe >>

(* ---------------------------------------------------------------- strings *)
SeqsUpTo(S, n) == UNION { [1..k -> S] : k \in 0..n }

Range(s) == { s[i] : i \in DOMAIN s }

\* an optional value: Python None, or a present value
None == [some |-> FALSE]
Some(x) == [some |-> TRUE, v |-> x]

DigitChars == {"0", "1", "2", "3", "4", "5", "6", "7", "8", "9"}

DigitVal(c) ==
    CASE c = "0" -> 0 [] c = "1" -> 1 [] c = "2" -> 2 [] c = "3" -> 3
      [] c = "4" -> 4 [] c = "5" -> 5 [] c = "6" -> 6 [] c = "7" -> 7
      [] c = "8" -> 8 [] c = "9" -> 9

DigitChar(d) ==
    CASE d = 0 -> "0" [] d = 1 -> "1" [] d = 2 -> "2" [] d = 3 -> "3"
      [] d = 4 -> "4" [] d = 5 -> "5" [] d = 6 -> "6" [] d = 7 -> "7"
      [] d = 8 -> "8" [] d = 9 -> "9"

IsSpace(c) == c \in {" ", "\t", "\n"}

RECURSIVE LStrip(_)
LStrip(s) == IF s # <<>> /\ IsSpace(Head(s)) THEN LStrip(Tail(s)) ELSE s

RECURSIVE RStrip(_)
RStrip(s) ==
    IF s # <<>> /\ IsSpace(s[Len(s)]) THEN RStrip(SubSeq(s, 1, Len(s) - 1)) ELSE s

\* str.strip()
Strip(s) == RStrip(LStrip(s))

\* str.split(sep) for a one-character separator: "".split(",") is [""]
RECURSIVE SplitFrom(_, _, _)
SplitFrom(s, sep, cur) ==
    IF s = <<>> THEN << cur >>
    ELSE IF Head(s) = sep THEN << cur >> \o SplitFrom(Tail(s), sep, <<>>)
    ELSE SplitFrom(Tail(s), sep, Append(cur, Head(s)))

Split(s, sep) == SplitFrom(s, sep, <<>>)

\* sep.join(parts)
RECURSIVE Join(_, _)
Join(parts, sep) ==
    IF parts = <<>> THEN <<>>
    ELSE IF Len(parts) = 1 THEN parts[1]
    ELSE parts[1] \o sep \o Join(Tail(parts), sep)

\* str.isdigit(): non-empty and every character a digit
IsDigit(s) == s # <<>> /\ \A i \in DOMAIN s : s[i] \in DigitChars

RECURSIVE DigitsValue(_, _)
DigitsValue(s, acc) ==
    IF s = <<>> THEN acc ELSE DigitsValue(Tail(s), 10 * acc + DigitVal(Head(s)))

RECURSIVE NatStr(_)
NatStr(n) == IF n < 10 THEN << DigitChar(n) >> ELSE NatStr(n \div 10) \o << DigitChar(n % 10) >>

\* a JSON scalar of an id list is a string or a number; str(x) of either
JStr(s) == [t |-> "str", v |-> s]
JNum(n) == [t |-> "num", n |-> n]
Str(x) == IF x.t = "num" THEN NatStr(x.n) ELSE x.v

\* "a" + "b" + ... for the fixed texts of the program
UNTITLED_PREFIX == << "(", "U", "n", "t", "i", "t", "l", "e", "d", " ",
                      "a", "r", "t", "i", "c", "l", "e", ",", " ",
                      "P", "M", "I", "D", " " >>
NO_ABSTRACT == << "(", "N", "o", " ", "a", "b", "s", "t", "r", "a", "c", "t", " ",
                  "a", "v", "a", "i", "l", "a", "b", "l", "e", ".", ")" >>
ELLIPSIS == << ".", ".", "." >>
ARROW == << "-", ">" >>
NO_SEEDS == "no seeds provided"

(* --------------------------------------------------------------- try/except *)
\* a try block whose handler is missing: the exception goes on to the caller
ExceptNothing(res, handled) == res

\* A block of code ends as a record: exc, whether it raised; val, the value it
\* had computed (the locals it had assigned) when it ended; calls, the requests
\* it sent; slept, the milliseconds it slept.
\* try: <block> except Exception: <handled>
Except(res, handled) ==
    IF res.exc THEN [res EXCEPT !.exc = FALSE, !.val = handled] ELSE res

(* ------------------------------------------------------------------ _get *)
\* What the upstream does with one request: the transport outcome, the HTTP
\* status and the body.
Outcome(net, status, body) == [net |-> net, status |-> status, body |-> body]

NoBody == [parsable |-> FALSE]

\* the ways a request fails before a body is read
FailedOutcomes ==
    { Outcome("error", 0, NoBody), Outcome("timeout", 0, NoBody),
      Outcome("ok", HTTP_SERVER_ERROR, NoBody) }

\* params.copy(), plus api_key when one is configured (a non-empty string)
WithKey(params) ==
    IF API_KEY.some /\ API_KEY.v # <<>> THEN params @@ [api_key |-> API_KEY.v] ELSE params

\* _get: SESSION.get raises on a transport error or timeout, raise_for_status
\* on a status of 400 and above; only then comes time.sleep(DELAY).
\* calls: the requests sent; slept: the milliseconds slept.
_get(endpoint, params, outcome) ==
    LET req == [endpoint |-> endpoint, params |-> WithKey(params)]
    IN  IF outcome.net # "ok"
        THEN [exc |-> TRUE, val |-> NoBody, calls |-> << req >>, slept |-> 0]
        ELSE IF outcome.status >= HTTP_ERROR_FROM
        THEN [exc |-> TRUE, val |-> NoBody, calls |-> << req >>, slept |-> 0]
        ELSE [exc |-> FALSE, val |-> outcome.body, calls |-> << req >>, slept |-> DELAY_MS]

\* r.json(): raises on a body that is not JSON
Json(r) == IF r.exc THEN r ELSE IF r.val.parsable THEN r ELSE [r EXCEPT !.exc = TRUE]

(* -------------------------------------------------- search_term_to_pmids *)
\* the try block of search_term_to_pmids
SearchBlock(term, retmax, outcome) ==
    LET r == _get("esearch", [db |-> "pubmed", term |-> term, retmode |-> "json",
                              retmax |-> retmax], outcome)
        j == Json(r)
        ids == IF j.val.has_idlist THEN j.val.idlist ELSE <<>>
    IN  IF j.exc THEN [j EXCEPT !.val = <<>>]
        ELSE [j EXCEPT !.val = [i \in DOMAIN ids |-> Str(ids[i])]]

search_term_to_pmids(term, retmax, outcome) ==
    IF term = <<>> THEN [exc |-> FALSE, val |-> <<>>, calls |-> <<>>, slept |-> 0]
    ELSE Except(SearchBlock(term, retmax, outcome), <<>>)

(* ------------------------------------------------------ get_citations_of *)
\* out.extend(...) over every linksetdb of every linkset
RECURSIVE Flatten(_)
Flatten(groups) ==
    IF groups = <<>> THEN <<>> ELSE Head(groups) \o Flatten(Tail(groups))

LinksOf(body) ==
    LET perSet == [i \in DOMAIN body.linksets |->
                      Flatten([k \in DOMAIN body.linksets[i] |->
                                  [m \in DOMAIN body.linksets[i][k] |->
                                      Str(body.linksets[i][k][m])]])]
    IN  Flatten(perSet)

\* the "unique preserve order" loop, from element k of out on
RECURSIVE UniqueLoop(_, _, _, _)
UniqueLoop(out, k, seen, lim) ==
    IF k > Len(out) THEN seen
    ELSE LET seen2 == IF out[k] \notin Range(seen) THEN Append(seen, out[k]) ELSE seen
         IN  IF Len(seen2) >= lim THEN seen2 ELSE UniqueLoop(out, k + 1, seen2, lim)

LinkName(direction) ==
    IF direction = "refs" THEN "pubmed_pubmed_refs" ELSE "pubmed_pubmed_citedin"

\* the try block of get_citations_of
CitationsBlock(pmid, direction, lim, outcome) ==
    LET r == _get("elink", [dbfrom |-> "pubmed", db |-> "pubmed", id |-> pmid,
                            linkname |-> LinkName(direction), retmode |-> "json"],
                  outcome)
        j == Json(r)
    IN  IF j.exc THEN [j EXCEPT !.val = <<>>]
        ELSE [j EXCEPT !.val = UniqueLoop(LinksOf(j.val), 1, <<>>, lim)]

get_citations_of(pmid, direction, lim, outcome) ==
    IF pmid = <<>> THEN [exc |-> FALSE, val |-> <<>>, calls |-> <<>>, slept |-> 0]
    ELSE Except(CitationsBlock(pmid, direction, lim, outcome), <<>>)

(* ------------------------------------------- get_article_summary_by_pmid *)
\* (x or "")
OrEmpty(opt) == IF opt.some THEN opt.v ELSE <<>>

\* the first try block: title, journal, pubdate from esummary
SummaryBlock(pmid, outcome) ==
    LET r == _get("esummary", [db |-> "pubmed", id |-> pmid, retmode |-> "json"], outcome)
        j == Json(r)
        blank == [title |-> <<>>, journal |-> <<>>, pubdate |-> <<>>]
    IN  IF j.exc THEN [j EXCEPT !.val = blank]
        ELSE IF ~j.val.has_record THEN [j EXCEPT !.val = blank]
        ELSE [j EXCEPT !.val = [title   |-> Strip(OrEmpty(j.val.title)),
                                journal |-> Strip(OrEmpty(j.val.fulljournalname)),
                                pubdate |-> Strip(OrEmpty(j.val.pubdate))]]

\* An XML element: text (None or a string), itertext (all its text joined) and
\* children (its number of child elements).  bool(element) is len(element) != 0,
\* so "a or b" on elements yields b whenever a has no child element.
ElementTruthy(opt) == opt.some /\ opt.v.children # 0
ElementOr(a, b) == IF ElementTruthy(a) THEN a ELSE b

MeshMajor(el) == el.MajorTopicYN = Some("Y")

\* the qualifiers of one heading; q.text.strip() raises when q.text is None
RECURSIVE QualifierLoop(_, _, _)
QualifierLoop(qs, k, acc) ==
    IF k > Len(qs) THEN [exc |-> FALSE, val |-> acc]
    ELSE IF ~qs[k].text.some THEN [exc |-> TRUE, val |-> acc]
    ELSE QualifierLoop(qs, k + 1,
             Append(acc, [name |-> Strip(qs[k].text.v), id |-> qs[k].UI,
                          major |-> MeshMajor(qs[k])]))

\* for mh in root.findall(".//MeshHeading"): exc with mesh_data as far as built
RECURSIVE MeshLoop(_, _, _)
MeshLoop(hs, k, mesh_data) ==
    IF k > Len(hs) THEN [exc |-> FALSE, val |-> mesh_data]
    ELSE IF ~hs[k].DescriptorName.some THEN MeshLoop(hs, k + 1, mesh_data)
    ELSE IF ~hs[k].DescriptorName.v.text.some THEN [exc |-> TRUE, val |-> mesh_data]
    ELSE LET d == hs[k].DescriptorName.v
             q == QualifierLoop(hs[k].QualifierName, 1, <<>>)
         IN  IF q.exc THEN [exc |-> TRUE, val |-> mesh_data]
             ELSE MeshLoop(hs, k + 1,
                      Append(mesh_data, [descriptor    |-> Strip(d.text.v),
                                         descriptor_id |-> d.UI,
                                         major         |-> MeshMajor(d),
                                         qualifiers    |-> q.val]))

\* [a.text.strip() for a in root.findall(".//AbstractText") if a.text]
RECURSIVE AbsParts(_)
AbsParts(els) ==
    IF els = <<>> THEN <<>>
    ELSE IF Head(els).text.some /\ Head(els).text.v # <<>>
         THEN << Strip(Head(els).text.v) >> \o AbsParts(Tail(els))
         ELSE AbsParts(Tail(els))

\* the title from the XML record when the summary gave none
XmlTitle(root, title) ==
    LET art_title_el == ElementOr(root.ArticleTitle, root.Title)
    IN  IF title # <<>> THEN title
        ELSE IF art_title_el.some /\ Strip(art_title_el.v.itertext) # <<>>
        THEN Strip(art_title_el.v.itertext)
        ELSE title

\* the second try block: title fallback, abstract and MeSH from efetch
FetchBlock(pmid, title, outcome) ==
    LET r == _get("efetch", [db |-> "pubmed", id |-> pmid, retmode |-> "xml"], outcome)
        x == Json(r)
        root == x.val
        abs_parts == AbsParts(root.AbstractText)
        abstract == IF abs_parts # <<>> THEN Join(abs_parts, << "\n", "\n" >>)
                    ELSE IF root.Abstract.some THEN Strip(root.Abstract.v.itertext)
                    ELSE <<>>
        mesh == MeshLoop(root.MeshHeading, 1, <<>>)
    IN  IF x.exc
        THEN [x EXCEPT !.val = [title |-> title, abstract |-> <<>>, mesh_data |-> <<>>]]
        ELSE [x EXCEPT !.exc = mesh.exc,
                       !.val = [title     |-> XmlTitle(root, title),
                                abstract  |-> abstract,
                                mesh_data |-> mesh.val]]

\* the sentinel and the truncation of the title
FinalTitle(pmid, title) ==
    IF title = <<>> THEN UNTITLED_PREFIX \o pmid \o << ")" >>
    ELSE IF Len(title) > TITLE_MAX THEN RStrip(SubSeq(title, 1, TITLE_KEEP)) \o ELLIPSIS
    ELSE title

FinalAbstract(abstract) == IF abstract = <<>> THEN NO_ABSTRACT ELSE abstract

get_article_summary_by_pmid(pmid, sOutcome, fOutcome) ==
    LET sb == SummaryBlock(pmid, sOutcome)
        s == Except(sb, sb.val)
        fb == FetchBlock(pmid, s.val.title, fOutcome)
        f == Except(fb, fb.val)
    IN  IF s.exc THEN s
        ELSE IF f.exc THEN [f EXCEPT !.calls = s.calls \o f.calls, !.slept = s.slept + f.slept]
        ELSE [exc   |-> FALSE,
              val   |-> [pmid     |-> pmid,
                         title    |-> FinalTitle(pmid, f.val.title),
                         abstract |-> FinalAbstract(f.val.abstract),
                         journal  |-> s.val.journal,
                         pubdate  |-> s.val.pubdate,
                         mesh     |-> f.val.mesh_data],
              calls |-> s.calls \o f.calls,
              slept |-> s.slept + f.slept]

(* ------------------------------------------------------------- api_graph *)
\* int(x) of a string: optional sign, then digits, blanks around allowed
IntOf(s) ==
    LET t == Strip(s)
        neg == t # <<>> /\ Head(t) = "-"
        body == IF t # <<>> /\ Head(t) \in {"-", "+"} THEN Tail(t) ELSE t
    IN  IF IsDigit(body)
        THEN [exc |-> FALSE, val |-> IF neg THEN 0 - DigitsValue(body, 0) ELSE DigitsValue(body, 0)]
        ELSE [exc |-> TRUE, val |-> 0]

\* try: int(request.args.get(name, 20)) except: 20
ArgInt(arg) ==
    IF ~arg.some THEN DEFAULT_LIMIT
    ELSE IF IntOf(arg.v).exc THEN DEFAULT_LIMIT ELSE IntOf(arg.v).val

\* the filter testing the piece, not the stripped piece
TokensKeepBlank(raw) ==
    LET parts == SelectSeq(Split(raw, ","), LAMBDA t : t # <<>>)
    IN  [i \in DOMAIN parts |-> Strip(parts[i])]

\* [s.strip() for s in seeds_raw.split(',') if s.strip()]
Tokens(raw) ==
    LET parts == Split(raw, ",")
        stripped == [i \in DOMAIN parts |-> Strip(parts[i])]
    IN  SelectSeq(stripped, LAMBDA t : t # <<>>)

edge_key(a, b) == a \o ARROW \o b

\* edge.split('->')
RECURSIVE SplitArrowFrom(_, _)
SplitArrowFrom(s, cur) ==
    IF s = <<>> THEN << cur >>
    ELSE IF Len(s) >= 2 /\ s[1] = ARROW[1] /\ s[2] = ARROW[2]
    THEN << cur >> \o SplitArrowFrom(SubSeq(s, 3, Len(s)), <<>>)
    ELSE SplitArrowFrom(Tail(s), Append(cur, Head(s)))

SplitArrow(edge) == SplitArrowFrom(edge, <<>>)

NodeIds(nodes) == { nodes[i].id : i \in DOMAIN nodes }

NodeOf(nodes, id) == nodes[CHOOSE i \in DOMAIN nodes : nodes[i].id = id]

\* the node built for an identifier seen for the first time
NewNode(pmid, meta, sIndex, sd) ==
    [id          |-> pmid,
     name        |-> meta.title,
     title_full  |-> meta.title,
     abstract    |-> meta.abstract,
     journal     |-> meta.journal,
     pubdate     |-> meta.pubdate,
     mesh        |-> [i \in DOMAIN meta.mesh |-> meta.mesh[i].descriptor],
     mesh_detail |-> meta.mesh,
     val         |-> NODE_VAL,
     color       |-> PALETTE[(sIndex % PALETTE_SIZE) + 1],
     seedGroup   |-> sd,
     seedGroups  |-> << sd >>,
     shared      |-> FALSE]

\* marking a node shared without recolouring it
MarkSharedKeepColor(node, sd) ==
    [node EXCEPT !.shared = TRUE,
                 !.seedGroups = IF sd \in Range(@) THEN @ ELSE Append(@, sd)]

\* the node of an identifier that is in all_nodes already
MarkShared(node, sd) ==
    [node EXCEPT !.shared = TRUE,
                 !.seedGroups = IF sd \in Range(@) THEN @ ELSE Append(@, sd),
                 !.color = SHARED_COLOR]

\* the filter looking at the source only
KeepsEdgeSourceOnly(nodes, edge) ==
    LET ab == SplitArrow(edge)
    IN  Len(ab) = 2 /\ ab[1] \in NodeIds(nodes)

\* lines 224-232: whether the edge makes it into the response: it splits in
\* two and node_map has both ends
KeepsEdge(nodes, edge) ==
    LET ab == SplitArrow(edge)
    IN  Len(ab) = 2 /\ ab[1] \in NodeIds(nodes) /\ ab[2] \in NodeIds(nodes)

\* node_map.get(id)['mesh'], for an identifier node_map has
MeshOf(nodes, id) == NodeOf(nodes, id).mesh

\* lines 235-236 on a kept edge: src.get('mesh') and tgt.get('mesh') raise on
\* an end that node_map lacks; the target is looked at only when the source
\* has MeSH terms
LinkRaises(nodes, edge) ==
    LET ab == SplitArrow(edge)
    IN  \/ ab[1] \notin NodeIds(nodes)
        \/ MeshOf(nodes, ab[1]) # <<>> /\ ab[2] \notin NodeIds(nodes)

\* lines 233-245
LinkOf(nodes, edge) ==
    LET ab == SplitArrow(edge)
        sem == /\ MeshOf(nodes, ab[1]) # <<>>
               /\ MeshOf(nodes, ab[2]) # <<>>
               /\ Range(MeshOf(nodes, ab[1])) \cap Range(MeshOf(nodes, ab[2])) # {}
    IN  [source |-> ab[1], target |-> ab[2],
         color |-> IF sem THEN SEMANTIC_COLOR ELSE LINK_COLOR, semantic |-> sem]

\* lines 222-245: the links of the response; their order is that of a set, so
\* they are modelled as a set
LinksBlock(nodes, edges) ==
    LET kept == { e \in edges : KeepsEdge(nodes, e) }
    IN  IF \E e \in kept : LinkRaises(nodes, e)
        THEN [exc |-> TRUE, val |-> {}]
        ELSE [exc |-> FALSE, val |-> { LinkOf(nodes, e) : e \in kept }]

\* the chain edges of one seed, in the order list(local_pmids) came out
ChainEdges(lst) == { edge_key(lst[i], lst[i + 1]) : i \in 1..(Len(lst) - 1) }

\* the orders list(a set) may come out in
Orders(S) == { f \in [1..Cardinality(S) -> S] : \A i, j \in DOMAIN f : i # j => f[i] # f[j] }

(* ---------------------------------------------------------- the upstream *)
\* the identifiers the upstream hands out during a graph build
GraphIds == { << "1" >>, << "2" >> }
JsonGraphIds == { JStr(i) : i \in GraphIds }

\* the pieces between the commas of the seeds parameter: empty, blank, an
\* identifier, a padded search term
Pieces == { <<>>, << " " >>, << "1" >>, << " ", "a" >> }
RawSeeds(n) == { Join(ps, << "," >>) : ps \in SeqsUpTo(Pieces, n) }
LimitArgs == { None }
ConnectorArgs == { Some(<< "1" >>) }

\* esearch answers: no JSON, JSON without an idlist, or up to two identifiers
HitLists == SeqsUpTo(JsonGraphIds, 2)
SearchBodies ==
    { NoBody, [parsable |-> TRUE, has_idlist |-> FALSE, idlist |-> <<>>] }
    \cup { [parsable |-> TRUE, has_idlist |-> TRUE, idlist |-> l] : l \in HitLists }

\* elink answers during a graph build: no JSON, no linkset, or one linksetdb
\* of at most one link
LinkLists == SeqsUpTo(JsonGraphIds, 1)
ElinkBodies ==
    { NoBody, [parsable |-> TRUE, linksets |-> <<>>] }
    \cup { [parsable |-> TRUE, linksets |-> << << l >> >>] : l \in LinkLists }

TextEl(t) == [text |-> Some(t), itertext |-> t, children |-> 0]
Descriptor(t, ui, yn) == [text |-> t, UI |-> ui, MajorTopicYN |-> yn]

\* the record esummary and efetch hold for every identifier of a graph build
SummaryRecord ==
    [parsable |-> TRUE, has_record |-> TRUE, title |-> Some(<< "T" >>),
     fulljournalname |-> Some(<< "J" >>), pubdate |-> None]
FetchRecord ==
    [parsable |-> TRUE, ArticleTitle |-> Some(TextEl(<< "X" >>)), Title |-> None,
     AbstractText |-> << TextEl(<< "A" >>) >>, Abstract |-> None,
     MeshHeading |-> << [DescriptorName |-> Some(Descriptor(Some(<< "m" >>), Some("D1"), Some("Y"))),
                         QualifierName |-> <<>>] >>]
SummaryBodies == { NoBody, SummaryRecord }
FetchBodies == { NoBody, FetchRecord }

Answers(bodies) == { Outcome("ok", HTTP_OK, b) : b \in bodies }
Outcomes(bodies) == FailedOutcomes \cup Answers(bodies)

\* a call that fails: transport, status, or a body that does not parse
Failed(outcome) ==
    outcome.net # "ok" \/ outcome.status >= HTTP_ERROR_FROM \/ ~outcome.body.parsable

\* The upstream is one of: "any", every call ends in any outcome; "records",
\* esearch and elink end in any outcome and esummary and efetch answer with the
\* record; "stub", every request has one fixed outcome.
AnyUpstream == [kind |-> "any"]
RecordsUpstream == [kind |-> "records"]

PieceTokens == { Strip(p) : p \in Pieces } \ { <<>> }
StubTerms == { t \in PieceTokens : ~IsDigit(t) }
Stubs ==
    { [kind |-> "stub", esearch |-> se, elink |-> el,
       esummary |-> [i \in GraphIds |-> Outcome("ok", HTTP_OK, SummaryRecord)],
       efetch |-> [i \in GraphIds |-> Outcome("ok", HTTP_OK, FetchRecord)]] :
      se \in [StubTerms -> Answers(SearchBodies \ { NoBody })],
      el \in [GraphIds -> Answers(ElinkBodies \ { NoBody })] }

SearchOutcomes(term) ==
    IF upstream.kind = "stub" THEN { upstream.esearch[term] } ELSE Outcomes(SearchBodies)
ElinkOutcomes(pmid) ==
    IF upstream.kind = "stub" THEN { upstream.elink[pmid] } ELSE Outcomes(ElinkBodies)
SummaryOutcomes(pmid) ==
    IF upstream.kind = "stub" THEN { upstream.esummary[pmid] }
    ELSE IF upstream.kind = "records" THEN Answers({ SummaryRecord })
    ELSE Outcomes(SummaryBodies)
FetchOutcomes(pmid) ==
    IF upstream.kind = "stub" THEN { upstream.efetch[pmid] }
    ELSE IF upstream.kind = "records" THEN Answers({ FetchRecord })
    ELSE Outcomes(FetchBodies)

(* ----------------------------------------------------- api_graph, by step *)
Endpoints(res) == { res.calls[i].endpoint : i \in DOMAIN res.calls }

NoLast == [fn |-> "none"]

\* the request arrives: api_graph has not run yet
InitGraph(raw, la, ca) ==
    /\ seeds_raw = raw /\ limit_arg = la /\ connector_arg = ca
    /\ pc = "start"
    /\ seeds = <<>> /\ limit = 0 /\ connector_limit = 0
    /\ s_index = 0 /\ pmids = <<>> /\ local_pmids = {} /\ local_list = <<>> /\ idx = 0
    /\ all_nodes = <<>> /\ all_links = {}
    /\ response = None /\ called = {} /\ last = NoLast /\ discovered = {}

\* lines 144-158: the parameters, the 400 response, the empty accumulators
Start ==
    /\ pc = "start"
    /\ seeds' = Tokens(seeds_raw)
    /\ IF seeds' = <<>>
       THEN /\ response' = Some([status |-> HTTP_BAD_REQUEST, error |-> NO_SEEDS])
            /\ pc' = "done"
            /\ UNCHANGED << seeds_raw, limit_arg, connector_arg, limit, connector_limit >>
       ELSE /\ limit' = ArgInt(limit_arg)
            /\ connector_limit' = ArgInt(connector_arg)
            /\ pc' = "resolve"
            /\ seeds_raw' = <<>> /\ limit_arg' = None /\ connector_arg' = None
            /\ UNCHANGED response
    /\ UNCHANGED << s_index, pmids, local_pmids,
                    local_list, idx, all_nodes, all_links, called, last, discovered >>
    /\ UNCHANGED << API_KEY, upstream, twin, probe >>

\* every seed sent to the search, identifiers too
ResolveSeedAlwaysSearch(sd, lim, outcome) == search_term_to_pmids(sd, lim, outcome)

\* lines 165-168: the primary identifiers of a seed
ResolveSeed(sd, lim, outcome) ==
    IF IsDigit(sd) THEN [exc |-> FALSE, val |-> << sd >>, calls |-> <<>>, slept |-> 0]
    ELSE search_term_to_pmids(sd, lim, outcome)

\* the for loop over the seeds: where it goes after seed number k (from 0)
AfterSeed(k) == IF k + 1 < Len(seeds) THEN "resolve" ELSE "final"

\* lines 163-172: resolve the seed; skip it when it has no identifier
Resolve ==
    /\ pc = "resolve"
    /\ LET sd == seeds[s_index + 1]
       IN  \E outcome \in (IF IsDigit(sd) THEN { Outcome("ok", HTTP_OK, NoBody) }
                                          ELSE SearchOutcomes(sd)) :
             LET res == ResolveSeed(sd, limit, outcome)
             IN  /\ called' = called \cup Endpoints(res)
                 /\ last' = [fn |-> "resolve", seed |-> sd, calls |-> res.calls,
                             failed |-> Failed(outcome), val |-> res.val]
                 /\ IF res.exc
                    THEN /\ pc' = "raised"
                         /\ UNCHANGED << s_index, pmids, local_pmids, idx >>
                    ELSE /\ pmids' = res.val
                         /\ IF res.val = <<>>
                            THEN /\ pc' = AfterSeed(s_index)
                                 /\ s_index' = s_index + 1
                                 /\ UNCHANGED << local_pmids, idx >>
                            ELSE /\ pc' = "gather"
                                 /\ local_pmids' = Range(res.val)
                                 /\ idx' = 1
                                 /\ UNCHANGED s_index
    /\ UNCHANGED << seeds_raw, limit_arg, connector_arg, seeds, limit, connector_limit,
                    local_list, all_nodes, all_links, response, discovered >>
    /\ UNCHANGED << API_KEY, upstream, twin, probe >>

\* lines 174-177, one primary identifier: its references join the working set;
\* after the last one, line 180 lists the working set in some order
Gather ==
    /\ pc = "gather"
    /\ \E outcome \in ElinkOutcomes(pmids[idx]) :
         LET res == get_citations_of(pmids[idx], "refs", connector_limit, outcome)
         IN  /\ called' = called \cup Endpoints(res)
             /\ last' = [fn |-> "get_citations_of", calls |-> res.calls,
                         failed |-> Failed(outcome), empty |-> res.val = <<>>]
             /\ IF res.exc
                THEN /\ pc' = "raised"
                     /\ UNCHANGED << local_pmids, local_list, idx >>
                ELSE /\ local_pmids' = local_pmids \cup Range(res.val)
                     /\ IF idx < Len(pmids)
                        THEN /\ idx' = idx + 1
                             /\ UNCHANGED << pc, local_list >>
                        ELSE /\ \E order \in Orders(local_pmids') : local_list' = order
                             /\ idx' = 1
                             /\ pc' = "hydrate"
    /\ UNCHANGED << seeds_raw, limit_arg, connector_arg, seeds, limit, connector_limit,
                    s_index, pmids, all_nodes, all_links, response, discovered >>
    /\ UNCHANGED << API_KEY, upstream, twin, probe >>

\* lines 180-205, one identifier of the working set
Hydrate ==
    /\ pc = "hydrate"
    /\ LET pmid == local_list[idx]
           sd == seeds[s_index + 1]
       IN  /\ discovered' = discovered \cup { << pmid, s_index >> }
           /\ IF pmid \in NodeIds(all_nodes)
              THEN /\ all_nodes' = [i \in DOMAIN all_nodes |->
                                       IF all_nodes[i].id = pmid
                                       THEN MarkShared(all_nodes[i], sd)
                                       ELSE all_nodes[i]]
                   /\ pc' = IF idx < Len(local_list) THEN "hydrate" ELSE "cite"
                   /\ idx' = IF idx < Len(local_list) THEN idx + 1 ELSE 1
                   /\ last' = NoLast
                   /\ UNCHANGED called
              ELSE \E so \in SummaryOutcomes(pmid), fo \in FetchOutcomes(pmid) :
                     LET res == get_article_summary_by_pmid(pmid, so, fo)
                     IN  /\ called' = called \cup Endpoints(res)
                         /\ last' = [fn |-> "get_article_summary_by_pmid",
                                     calls |-> res.calls,
                                     failed |-> << Failed(so), Failed(fo) >>]
                         /\ IF res.exc
                            THEN /\ pc' = "raised"
                                 /\ UNCHANGED << all_nodes, idx >>
                            ELSE /\ all_nodes' = Append(all_nodes,
                                                        NewNode(pmid, res.val, s_index, sd))
                                 /\ pc' = IF idx < Len(local_list) THEN "hydrate" ELSE "cite"
                                 /\ idx' = IF idx < Len(local_list) THEN idx + 1 ELSE 1
    /\ UNCHANGED << seeds_raw, limit_arg, connector_arg, seeds, limit, connector_limit,
                    s_index, pmids, local_pmids, local_list, all_links, response >>
    /\ UNCHANGED << API_KEY, upstream, twin, probe >>

\* lines 208-211, one primary identifier: its references, asked for again
Cite ==
    /\ pc = "cite"
    /\ \E outcome \in ElinkOutcomes(pmids[idx]) :
         LET res == get_citations_of(pmids[idx], "refs", connector_limit, outcome)
         IN  /\ called' = called \cup Endpoints(res)
             /\ last' = [fn |-> "get_citations_of", calls |-> res.calls,
                         failed |-> Failed(outcome), empty |-> res.val = <<>>]
             /\ IF res.exc
                THEN /\ pc' = "raised"
                     /\ UNCHANGED << all_links, idx >>
                ELSE /\ all_links' = all_links \cup
                                        { edge_key(pmids[idx], b) : b \in Range(res.val) }
                     /\ pc' = IF idx < Len(pmids) THEN "cite" ELSE "chain"
                     /\ idx' = IF idx < Len(pmids) THEN idx + 1 ELSE 1
    /\ UNCHANGED << seeds_raw, limit_arg, connector_arg, seeds, limit, connector_limit,
                    s_index, pmids, local_pmids, local_list, all_nodes, response,
                    discovered >>
    /\ UNCHANGED << API_KEY, upstream, twin, probe >>

\* lines 214-217: the chain through the working set, and on to the next seed
Chain ==
    /\ pc = "chain"
    /\ all_links' = all_links \cup ChainEdges(local_list)
    /\ pc' = AfterSeed(s_index)
    /\ s_index' = s_index + 1
    /\ pmids' = <<>> /\ local_pmids' = {} /\ local_list' = <<>> /\ idx' = 0
    /\ last' = NoLast
    /\ UNCHANGED << seeds_raw, limit_arg, connector_arg, seeds, limit, connector_limit,
                    all_nodes, response, called, discovered >>
    /\ UNCHANGED << API_KEY, upstream, twin, probe >>

\* lines 220-247: the links between known nodes, and the response
Final ==
    /\ pc = "final"
    /\ LET lb == LinksBlock(all_nodes, all_links)
       IN  IF lb.exc
           THEN pc' = "raised" /\ UNCHANGED response
           ELSE /\ response' = Some([status |-> HTTP_OK, nodes |-> all_nodes,
                                     links |-> lb.val])
                /\ pc' = "done"
    /\ UNCHANGED << seeds_raw, limit_arg, connector_arg, seeds, limit, connector_limit,
                    s_index, pmids, local_pmids, local_list, idx, all_nodes, all_links,
                    called, last, discovered >>
    /\ UNCHANGED << API_KEY, upstream, twin, probe >>

api_graph == Start \/ Resolve \/ Gather \/ Hydrate \/ Cite \/ Chain \/ Final

\* the same request again, against the same stub: the first response is kept
Rerun ==
    /\ pc = "done"
    /\ twin.some /\ ~twin.v.first.some
    /\ twin' = Some([twin.v EXCEPT !.first = response])
    /\ seeds_raw' = twin.v.seeds_raw
    /\ limit_arg' = twin.v.limit_arg /\ connector_arg' = twin.v.connector_arg
    /\ pc' = "start"
    /\ seeds' = <<>> /\ limit' = 0 /\ connector_limit' = 0
    /\ s_index' = 0 /\ pmids' = <<>> /\ local_pmids' = {} /\ local_list' = <<>> /\ idx' = 0
    /\ all_nodes' = <<>> /\ all_links' = {}
    /\ response' = None /\ called' = {} /\ last' = NoLast /\ discovered' = {}
    /\ UNCHANGED << API_KEY, upstream, probe >>

Requests(n) ==
    { [seeds_raw |-> raw, limit_arg |-> la, connector_arg |-> ca, first |-> None] :
      raw \in RawSeeds(n), la \in LimitArgs, ca \in ConnectorArgs }

\* api_graph serving one request, every upstream call ending in any outcome
Init ==
    /\ API_KEY = None /\ upstream = AnyUpstream /\ twin = None /\ probe = None
    /\ \E rq \in Requests(MaxSeeds) : InitGraph(rq.seeds_raw, rq.limit_arg, rq.connector_arg)

Next == api_graph

Spec == Init /\ [][Next]_vars

\* api_graph serving one longer request, esummary and efetch in order
InitMany ==
    /\ API_KEY = None /\ upstream = RecordsUpstream /\ twin = None /\ probe = None
    /\ \E rq \in Requests(MaxManySeeds) :
         InitGraph(rq.seeds_raw, rq.limit_arg, rq.connector_arg)

SpecMany == InitMany /\ [][Next]_vars

\* api_graph serving the same request twice against one deterministic stub
InitTwin ==
    /\ API_KEY = None /\ probe = None
    /\ upstream \in Stubs
    /\ \E rq \in Requests(MaxTwinSeeds) :
         /\ twin = Some(rq)
         /\ InitGraph(rq.seeds_raw, rq.limit_arg, rq.connector_arg)

NextTwin == api_graph \/ Rerun

SpecTwin == InitTwin /\ [][NextTwin]_vars

(* ------------------------------------------- the adapter functions alone *)
\* no request is being served
IdleGraph ==
    /\ seeds_raw = <<>> /\ limit_arg = None /\ connector_arg = None
    /\ pc = "idle"
    /\ seeds = <<>> /\ limit = 0 /\ connector_limit = 0
    /\ s_index = 0 /\ pmids = <<>> /\ local_pmids = {} /\ local_list = <<>> /\ idx = 0
    /\ all_nodes = <<>> /\ all_links = {}
    /\ response = None /\ called = {} /\ last = NoLast /\ discovered = {}

NoResult == [exc |-> FALSE, val |-> <<>>, calls |-> <<>>, slept |-> 0]

\* get_citations_of: elink answers of up to MaxGroups linksets, each of up to
\* MaxGroups linksetdb groups, each of up to MaxGroupLinks links
CitJsonIds == { JStr(<< "1" >>), JNum(2) }
CitLinkSets == SeqsUpTo(SeqsUpTo(CitJsonIds, MaxGroupLinks), MaxGroups)
CitBodies ==
    { NoBody } \cup { [parsable |-> TRUE, linksets |-> ls] : ls \in SeqsUpTo(CitLinkSets, MaxGroups) }

InitCit ==
    /\ API_KEY = None /\ upstream = AnyUpstream /\ twin = None /\ IdleGraph
    /\ \E pmid \in { <<>>, << "1" >> }, direction \in { "refs", "citedin" },
          lim \in (0 - 1)..MaxLimit, outcome \in Outcomes(CitBodies) :
         probe = [fn |-> "get_citations_of", pmid |-> pmid, direction |-> direction,
                  limit |-> lim, outcome |-> outcome, done |-> FALSE, result |-> NoResult]

CallCitations ==
    /\ probe.fn = "get_citations_of" /\ ~probe.done
    /\ probe' = [probe EXCEPT !.done = TRUE,
                              !.result = get_citations_of(probe.pmid, probe.direction,
                                                          probe.limit, probe.outcome)]
    /\ UNCHANGED << API_KEY, graphVars, upstream, twin >>

SpecCit == InitCit /\ [][CallCitations]_vars

\* _get: every endpoint, with and without an API key
GetRequests ==
    { [endpoint |-> "esearch", params |-> [db |-> "pubmed", term |-> << "a" >>]],
      [endpoint |-> "esummary", params |-> [db |-> "pubmed", id |-> << "1" >>]],
      [endpoint |-> "efetch", params |-> [db |-> "pubmed", id |-> << "1" >>]],
      [endpoint |-> "elink", params |-> [db |-> "pubmed", id |-> << "1" >>]] }
GetOutcomes ==
    FailedOutcomes \cup { Outcome("ok", HTTP_NOT_FOUND, NoBody) }
    \cup Answers({ NoBody, SummaryRecord })

InitGet ==
    /\ API_KEY \in { None, Some(<<>>), Some(<< "k" >>) }
    /\ upstream = AnyUpstream /\ twin = None /\ IdleGraph
    /\ \E rq \in GetRequests, outcome \in GetOutcomes :
         probe = [fn |-> "_get", endpoint |-> rq.endpoint, params |-> rq.params,
                  outcome |-> outcome, done |-> FALSE, result |-> NoResult]

CallGet ==
    /\ probe.fn = "_get" /\ ~probe.done
    /\ probe' = [probe EXCEPT !.done = TRUE,
                              !.result = _get(probe.endpoint, probe.params, probe.outcome)]
    /\ UNCHANGED << API_KEY, graphVars, upstream, twin >>

SpecGet == InitGet /\ [][CallGet]_vars

\* get_article_summary_by_pmid: summaries and records with and without titles
Chars(n, c) == [i \in 1..n |-> c]
LongTitle == [i \in 1..(TITLE_MAX + 1) |-> IF i = TITLE_KEEP THEN " " ELSE "x"]
SummaryTitles ==
    { None, Some(<<>>), Some(<< " " >>), Some(<< " ", "T" >>),
      Some(Chars(TITLE_MAX, "x")), Some(LongTitle) }
TitleSummaries ==
    { NoBody,
      [parsable |-> TRUE, has_record |-> FALSE, title |-> None,
       fulljournalname |-> None, pubdate |-> None] }
    \cup { [parsable |-> TRUE, has_record |-> TRUE, title |-> t,
            fulljournalname |-> Some(<< "J" >>), pubdate |-> Some(<< "2", "0" >>)] :
           t \in SummaryTitles }
\* <ArticleTitle>: absent, plain text, empty, or text with markup children
ArticleTitleEls ==
    { None, Some(TextEl(<< "X" >>)), Some(TextEl(<<>>)),
      Some([text |-> Some(<< "X" >>), itertext |-> << "X", "i" >>, children |-> 1]) }
TitleEls == { None, Some(TextEl(<< "J" >>)) }
AbstractTextLists ==
    { <<>>, << TextEl(<< "A" >>), [text |-> None, itertext |-> <<>>, children |-> 0],
               TextEl(<< "B", " " >>) >> }
AbstractEls == { None, Some(TextEl(<< " ", "C" >>)) }
MeshLists ==
    { <<>>,
      << [DescriptorName |-> None, QualifierName |-> <<>>],
         [DescriptorName |-> Some(Descriptor(Some(<< "m" >>), Some("D1"), Some("Y"))),
          QualifierName |-> << Descriptor(Some(<< "q" >>), None, Some("N")) >>] >>,
      << [DescriptorName |-> Some(Descriptor(Some(<< "m" >>), None, None)),
          QualifierName |-> <<>>],
         [DescriptorName |-> Some(Descriptor(None, None, None)), QualifierName |-> <<>>] >> }
TitleRecords ==
    { NoBody }
    \cup { [parsable |-> TRUE, ArticleTitle |-> at, Title |-> ti, AbstractText |-> ab,
            Abstract |-> ae, MeshHeading |-> mh] :
           at \in ArticleTitleEls, ti \in TitleEls, ab \in AbstractTextLists,
           ae \in AbstractEls, mh \in MeshLists }

InitTitle ==
    /\ API_KEY = None /\ upstream = AnyUpstream /\ twin = None /\ IdleGraph
    /\ \E so \in Outcomes(TitleSummaries), fo \in Outcomes(TitleRecords) :
         probe = [fn |-> "get_article_summary_by_pmid", pmid |-> << "7" >>,
                  sOutcome |-> so, fOutcome |-> fo, done |-> FALSE, result |-> NoResult]

CallSummary ==
    /\ probe.fn = "get_article_summary_by_pmid" /\ ~probe.done
    /\ probe' = [probe EXCEPT !.done = TRUE,
                              !.result = get_article_summary_by_pmid(probe.pmid,
                                             probe.sOutcome, probe.fOutcome)]
    /\ UNCHANGED << API_KEY, graphVars, upstream, twin >>

SpecTitle == InitTitle /\ [][CallSummary]_vars

(* ================================================================ claims *)
Done200 == pc = "done" /\ response.v.status = HTTP_OK

\* the seed indexes (from 0) under which the identifier was in a working set
SeenUnder(id) == { d[2] : d \in { x \in discovered : x[1] = id } }
\* the distinct seeds among them
SeedsOf(id) == { seeds[i + 1] : i \in SeenUnder(id) }
FirstSeen(id) == CHOOSE i \in SeenUnder(id) : \A k \in SeenUnder(id) : i <= k

(* C1: every link of the response of api_graph has a source and a target that
   are both ids of nodes of the returned node list, whatever the upstream
   answered (a second expansion with other references, skipped seeds). *)
C1_LinksJoinNodes ==
    Done200 =>
        \A l \in response.v.links :
            /\ l.source \in NodeIds(response.v.nodes)
            /\ l.target \in NodeIds(response.v.nodes)

\* a build that collected an edge to an identifier it has no node for, and
\* returned a link all the same
C1_Witness ==
    /\ Done200
    /\ response.v.links # {}
    /\ \E e \in all_links : ~KeepsEdge(all_nodes, e)

(* C2: in the final node list a node is shared if and only if its identifier
   was in the working set of at least two distinct seeds, and a node seen under
   one distinct seed only keeps that seed's palette colour; also when the same
   seed string appears twice in the seed list. *)
C2_SharedIffTwoDistinctSeeds ==
    Done200 =>
        \A i \in DOMAIN all_nodes :
            LET n == all_nodes[i]
            IN  /\ n.shared <=> Cardinality(SeedsOf(n.id)) >= 2
                /\ Cardinality(SeedsOf(n.id)) = 1 =>
                       /\ ~n.shared
                       /\ n.color = PALETTE[(FirstSeen(n.id) % PALETTE_SIZE) + 1]

(* C3: once an identifier has been in the working set of a seed A and of a
   later seed B, its node is shared, its seedGroups hold A and B, its colour is
   the shared colour and its seedGroup is the first seed that made the node;
   no later step of the build makes the node unshared, recolours it or changes
   its seedGroup. *)
C3_NodeState ==
    \A i \in DOMAIN all_nodes :
        LET n == all_nodes[i]
        IN  /\ n.seedGroup = seeds[FirstSeen(n.id) + 1]
            /\ Cardinality(SeenUnder(n.id)) >= 2 =>
                   /\ n.shared
                   /\ n.color = SHARED_COLOR
                   /\ \A k \in SeenUnder(n.id) : seeds[k + 1] \in Range(n.seedGroups)

C3_NodeStep ==
    \A i \in DOMAIN all_nodes :
        /\ i \in DOMAIN all_nodes'
        /\ all_nodes'[i].id = all_nodes[i].id
        /\ all_nodes'[i].seedGroup = all_nodes[i].seedGroup
        /\ all_nodes[i].shared =>
               all_nodes'[i].shared /\ all_nodes'[i].color = SHARED_COLOR

C3_SharedStays == [](C3_NodeState) /\ [][C3_NodeStep]_vars

\* a node seen under the first two seeds, left alone by the third seed, which
\* was not skipped, at the end of the build
C3_Witness ==
    /\ Done200 /\ Len(seeds) = 3
    /\ \E i \in DOMAIN all_nodes : SeenUnder(all_nodes[i].id) = {0, 1}
    /\ \E i \in DOMAIN all_nodes : 2 \in SeenUnder(all_nodes[i].id)

(* C6: with a nonempty seed list api_graph never raises, whatever the outcome
   of each upstream call: a failed search gives an empty identifier list, a
   failed citation call an empty citation list, failed summary and record
   calls empty fields and the sentinel title and abstract, and the build ends
   with a 200 response carrying the nodes and the links. *)
C6_FailuresAbsorbed ==
    /\ pc # "raised"
    /\ (pc = "done" /\ seeds # <<>>) =>
           response = Some([status |-> HTTP_OK, nodes |-> all_nodes,
                            links |-> response.v.links])
    /\ (last.fn = "resolve" /\ last.calls # <<>> /\ last.failed) => last.val = <<>>
    /\ (last.fn = "get_citations_of" /\ last.failed) => last.empty
    /\ last.fn = "get_article_summary_by_pmid" =>
           LET n == all_nodes[Len(all_nodes)]
           IN  /\ last.failed[1] => n.journal = <<>> /\ n.pubdate = <<>>
               /\ last.failed[2] => n.abstract = NO_ABSTRACT /\ n.mesh = <<>>
               /\ (last.failed[1] /\ last.failed[2]) =>
                      n.title_full = UNTITLED_PREFIX \o n.id \o << ")" >>

\* a finished build in which a search failed and one node lost both its
\* summary and its record
C6_Witness ==
    /\ Done200
    /\ last.fn = "resolve" /\ last.failed
    /\ \E i \in DOMAIN all_nodes :
          /\ all_nodes[i].title_full = UNTITLED_PREFIX \o all_nodes[i].id \o << ")" >>
          /\ all_nodes[i].abstract = NO_ABSTRACT

(* C7: when the seeds parameter holds nothing but commas and blanks, api_graph
   answers 400 {"error": "no seeds provided"} and sends no request upstream
   before it returns. *)
BlankRequest(raw) == \A i \in DOMAIN raw : raw[i] = "," \/ IsSpace(raw[i])

C7_BlankStep ==
    (pc = "start" /\ BlankRequest(seeds_raw)) =>
        /\ pc' = "done"
        /\ response' = Some([status |-> HTTP_BAD_REQUEST, error |-> NO_SEEDS])
        /\ called' = {}

C7_NoSeeds400 ==
    /\ []((pc = "done" /\ response.v.status = HTTP_BAD_REQUEST) => called = {})
    /\ [][C7_BlankStep]_vars

\* the 400 response to a request of a blank and a comma
C7_Witness ==
    /\ pc = "done"
    /\ response = Some([status |-> HTTP_BAD_REQUEST, error |-> NO_SEEDS])
    /\ seeds_raw = << " ", "," >>

(* C8: an all-digit seed resolves to the list of itself and no search is sent
   for it; any other seed resolves to what the search returns for the seed and
   the limit; a seed with no identifier adds no node and no edge and the build
   goes on with the next seed. *)
C8_Resolved ==
    /\ (\A i \in 1..Len(seeds) : i <= s_index + 1 => IsDigit(seeds[i])) =>
           "esearch" \notin called
    /\ last.fn = "resolve" =>
           /\ IsDigit(last.seed) => last.val = << last.seed >> /\ last.calls = <<>>
           /\ ~IsDigit(last.seed) =>
                  /\ Len(last.calls) = 1
                  /\ last.calls[1].endpoint = "esearch"
                  /\ last.calls[1].params.term = last.seed
                  /\ last.calls[1].params.retmax = limit
           /\ pc = "gather" => pmids = last.val /\ last.seed = seeds[s_index + 1]

C8_SkipStep ==
    (pc = "resolve" /\ pc' # "gather") =>
        /\ pmids' = <<>>
        /\ all_nodes' = all_nodes /\ all_links' = all_links
        /\ s_index' = s_index + 1
        /\ pc' = IF s_index' < Len(seeds) THEN "resolve" ELSE "final"

C8_SeedResolution == [](C8_Resolved) /\ [][C8_SkipStep]_vars

\* the first seed was a term without hits and was skipped; the second, an
\* identifier, is being expanded with nothing built so far
C8_Witness ==
    /\ pc = "gather" /\ s_index = 1
    /\ ~IsDigit(seeds[1]) /\ IsDigit(seeds[2])
    /\ pmids = << seeds[2] >>
    /\ all_nodes = <<>> /\ all_links = {}

(* C5: two builds with the same seeds, limit and connector_limit against one
   deterministic stub return the same set of nodes (same ids, same fields) and
   the same set of links, whatever order the working set of a seed comes out
   in when the chain edges are built. *)
C5_SameGraphTwice ==
    (pc = "done" /\ twin.v.first.some) =>
        /\ response.v.status = twin.v.first.v.status
        /\ response.v.status = HTTP_OK =>
               /\ Range(response.v.nodes) = Range(twin.v.first.v.nodes)
               /\ response.v.links = twin.v.first.v.links

(* C4: the result of get_citations_of has at most limit elements (none for a
   limit of 0 or below), holds no identifier twice, and lists the identifiers
   in the order of their first occurrence in the flattened link groups. *)
RECURSIVE FirstOccurrences(_)
FirstOccurrences(sq) ==
    IF sq = <<>> THEN <<>>
    ELSE LET init == FirstOccurrences(SubSeq(sq, 1, Len(sq) - 1))
         IN  IF sq[Len(sq)] \in Range(init) THEN init ELSE Append(init, sq[Len(sq)])

IsPrefix(a, b) == Len(a) <= Len(b) /\ a = SubSeq(b, 1, Len(a))

AtMost(lim) == IF lim < 0 THEN 0 ELSE lim

C4_CitationsBounded ==
    probe.done =>
        LET got == probe.result.val
        IN  /\ ~probe.result.exc
            /\ Len(got) <= AtMost(probe.limit)
            /\ \A i, j \in DOMAIN got : i # j => got[i] # got[j]
            /\ ~Failed(probe.outcome) =>
                   IsPrefix(got, FirstOccurrences(LinksOf(probe.outcome.body)))

(* C9: every call made through _get is followed by the fixed delay before
   control returns to the caller, after a response as after a transport error,
   a timeout or an error status. *)
C9_AlwaysSleeps == probe.done => probe.result.slept = DELAY_MS

(* C10: the title of the record is the summary title when that is not empty;
   else the text of the article-title element of the XML record when there is
   one with text (the plain title element only when there is no article-title
   element); the sentinel only when neither source yields a title. *)
SummaryTitleOf(p) ==
    IF Failed(p.sOutcome) \/ ~p.sOutcome.body.has_record THEN <<>>
    ELSE Strip(OrEmpty(p.sOutcome.body.title))

ElText(opt) == IF opt.some THEN Strip(opt.v.itertext) ELSE <<>>

\* the title the XML record yields: article-title first, plain title else
RecordTitleOf(p) ==
    IF Failed(p.fOutcome) THEN <<>>
    ELSE IF p.fOutcome.body.ArticleTitle.some THEN ElText(p.fOutcome.body.ArticleTitle)
    ELSE ElText(p.fOutcome.body.Title)

C10_TitleResolution ==
    probe.done =>
        LET st == SummaryTitleOf(probe)
            xt == RecordTitleOf(probe)
            title == probe.result.val.title
        IN  /\ st # <<>> => title = FinalTitle(probe.pmid, st)
            /\ (st = <<>> /\ xt # <<>>) => title = FinalTitle(probe.pmid, xt)
            /\ title = UNTITLED_PREFIX \o probe.pmid \o << ")" >> => st = <<>> /\ xt = <<>>

====
